---- MODULE Spec2Model ----
(***************************************************************************)
(* fsdict: dictionaries persisted to a SQLite table Dict(key, value[,salt]) *)
(*   plain   src/src/fsdict/sqldict.py             SQLDict                  *)
(*   shared  src/src/fsdict/cryptosqldict.py       SQLDict (one salt/store) *)
(*   flight  src/src/fsdict/flightcryptosqldict.py SQLDict (salt per entry) *)
(* Two callers, each holding its own store instance (its own connection),   *)
(* work on one database file.                                               *)
(***************************************************************************)
EXTENDS Integers, Sequences, FiniteSets, TLC

\* ---------------------------------------------------------------- bounds
\* number of random salts secrets.token_urlsafe hands out in one behaviour
MaxSalts == 3

\* number of entries, pairs and keyword entries together, handed to one
\* constructor
MaxEntries == 2

\* length of the keys handed to the file store
MaxKeyLen == 3

\* ------------------------------------------------------------ input sets
Callers == {"c1", "c2"}
Keys == {"a", "k"}
Variants == {"plain", "shared", "flight"}

\* Python's None, where a str (a sequence of code points) is expected
None == <<-1>>

\* text values handed to set: "hi", "e-acute", and a lone surrogate "\ud800"
Texts == {<<104, 105>>, <<233>>, <<55296>>}

\* password arguments: None, "", "p"; PASS is unset or "q"
PasswordArgs == {None, <<>>, <<112>>}
EnvPasswords == {None, <<113>>}

\* ------------------------------------------------------- str <-> bytes
\* str.encode() is UTF-8; a surrogate code point raises UnicodeEncodeError
IsSurrogate(cp) == cp >= 55296 /\ cp <= 57343

CanEncode(s) == \A i \in 1..Len(s) : ~IsSurrogate(s[i])

EncodeChar(cp) ==
    IF cp < 128 THEN <<cp>>
    ELSE IF cp < 2048 THEN <<192 + (cp \div 64), 128 + (cp % 64)>>
    ELSE <<224 + (cp \div 4096), 128 + ((cp \div 64) % 64), 128 + (cp % 64)>>

RECURSIVE StrEncode(_)
StrEncode(s) ==
    IF s = <<>> THEN <<>> ELSE EncodeChar(Head(s)) \o StrEncode(Tail(s))

\* bytes.decode() is strict UTF-8; result is [ok, s]
IsCont(b, i) == i <= Len(b) /\ b[i] >= 128 /\ b[i] < 192

RECURSIVE BytesDecodeFrom(_, _)
BytesDecodeFrom(b, i) ==
    IF i > Len(b) THEN [ok |-> TRUE, s |-> <<>>]
    ELSE IF b[i] < 128 THEN
        LET r == BytesDecodeFrom(b, i + 1)
        IN  [ok |-> r.ok, s |-> <<b[i]>> \o r.s]
    ELSE IF b[i] >= 194 /\ b[i] < 224 /\ IsCont(b, i + 1) THEN
        LET r == BytesDecodeFrom(b, i + 2)
        IN  [ok |-> r.ok, s |-> <<(b[i] - 192) * 64 + (b[i + 1] - 128)>> \o r.s]
    ELSE IF b[i] >= 224 /\ b[i] < 240 /\ IsCont(b, i + 1) /\ IsCont(b, i + 2) THEN
        LET cp == (b[i] - 224) * 4096 + (b[i + 1] - 128) * 64 + (b[i + 2] - 128)
            r == BytesDecodeFrom(b, i + 3)
        IN  [ok |-> r.ok /\ cp >= 2048 /\ ~IsSurrogate(cp), s |-> <<cp>> \o r.s]
    ELSE [ok |-> FALSE, s |-> <<>>]

BytesDecode(b) == BytesDecodeFrom(b, 1)

\* --------------------------------------------------------------- results
\* what an operation hands back: kind is "ok", "True", "False" or the name
\* of the exception raised; val is the value returned (a str), if any
Ret(kind, val) == [kind |-> kind, val |-> val]
Raise(exc) == Ret(exc, <<>>)
IsError(r) == r.kind \notin {"ok", "True", "False", "none"}

\* the record kept of a finished operation: who ran what on which key (for
\* the constructor: with which password argument, which salt argument and
\* which initial entries) and what came back
DoneOpen(c, password, salt, r) ==
    [by |-> c, op |-> "open", key |-> "a", arg |-> password, salt |-> salt,
     entries |-> <<>>, kind |-> r.kind, val |-> r.val]
Done(c, op, key, arg, r) ==
    [by |-> c, op |-> op, key |-> key, arg |-> arg, salt |-> [t |-> "none", id |-> 0],
     entries |-> <<>>, kind |-> r.kind, val |-> r.val]
NoRet == Done("c1", "none", "a", <<>>, Ret("none", <<>>))

\* ----------------------------------------------------------------- salts
\* A salt is known by an id; t tells the Python type that carries it:
\* "str" (token_urlsafe's result, a salt column), "bytes" (after .encode()),
\* "b64" (the SALT environment text before base64.decodebytes)
Salt(t, id) == [t |-> t, id |-> id]
NoSalt == Salt("none", 0)
ArgSaltId == 101
EnvSaltId == 102
SaltArgs == {NoSalt, Salt("str", ArgSaltId)}
EnvSalts == {NoSalt, Salt("b64", EnvSaltId)}

SaltEncode(s) == Salt("bytes", s.id)
SaltDecode(s) == Salt("str", s.id)
Base64Decode(s) == Salt("bytes", s.id)

\* ---------------------------------------------------------------- cipher
\* PBKDF2HMAC(salt=...).derive(password): the key is fixed by the pair
\* (password, salt); PBKDF2HMAC raises TypeError unless salt is bytes
NoKey == [pw |-> <<>>, salt |-> 0]
KdfOk(salt) == salt.t = "bytes"
Derive(password, salt) == [pw |-> password, salt |-> salt.id]

\* Fernet(key).encrypt(data): an authenticated token; sound is FALSE once
\* the stored bytes no longer match the token's MAC
FernetEncrypt(key, data) == [key |-> key, plain |-> data, sound |-> TRUE]

\* Fernet(key).decrypt(token) raises InvalidToken unless the MAC verifies
\* under key
FernetVerifies(key, token) == token.key = key /\ token.sound

\* --------------------------------------------------------------- state
VARIABLES
    variant,      \* which of the three SQLDict classes is used on this file
    keys,         \* the keys the callers work on
    envPASS,      \* os.getenv("PASS"), None when unset
    envSALT,      \* os.getenv("SALT"), NoSalt when unset
    tableExists,  \* table Dict exists
    indexExists,  \* unique index KIndx exists
    rows,         \* rows of Dict in rowid order: [key, value, salt]
    nsalt,        \* how many random salts have been generated
    inst,         \* per caller: the store instance it holds
    pc,           \* per caller: where it stands inside an operation
    cur,          \* per caller: arguments of the operation under way
    ret,          \* the last finished operation and its outcome (history)
    last,         \* per key: the set that was the last change of it (history)
    iters,        \* per caller: the iterator iter(store) handed to it
    cache,        \* the lru_cache of _fernetgen: salts, least recently used first
    derived,      \* the salts PBKDF2 was run for, in order (history)
    files         \* the files of the directory of a FileDict

vars == <<variant, keys, envPASS, envSALT, tableExists, indexExists, rows, nsalt,
          inst, pc, cur, ret, last, iters, cache, derived, files>>

dbvars == <<tableExists, indexExists, rows>>

\* what no method of a store changes: the environment, and the objects that
\* live aside from the store
aside == <<iters, cache, derived, files>>
envvars == <<variant, keys, envPASS, envSALT, aside>>

NoInst == [st |-> "none", password |-> <<>>, salt |-> NoSalt, fernet |-> NoKey,
           encoder |-> "default", decoder |-> "default",
           in_transaction |-> FALSE, conn |-> "none"]
\* self.conn = sqlite3.connect(dbname, ...): the constructor's instance
\* once its connection is open
Connected == [NoInst EXCEPT !.conn = "open"]
NoCur == [op |-> "none", key |-> "a", val |-> <<>>, pre |-> <<>>, row |-> <<>>]
NoLast == [op |-> "none", val |-> <<>>, by |-> "c1", pw |-> <<>>]
NoIter == [live |-> FALSE, rest |-> <<>>, out |-> <<>>, snap |-> {}]

\* nothing on disk, nothing constructed
Blank ==
    /\ tableExists = FALSE
    /\ indexExists = FALSE
    /\ rows = <<>>
    /\ nsalt = 0
    /\ inst = [c \in Callers |-> NoInst]
    /\ pc = [c \in Callers |-> "idle"]
    /\ cur = [c \in Callers |-> NoCur]
    /\ ret = NoRet
    /\ last = [k \in Keys |-> NoLast]
    /\ iters = [c \in Callers |-> NoIter]
    /\ cache = <<>>
    /\ derived = <<>>
    /\ files = {}

Start ==
    /\ variant \in Variants
    /\ envPASS \in (IF variant = "plain" THEN {None} ELSE EnvPasswords)
    /\ envSALT \in (IF variant = "shared" THEN EnvSalts ELSE {NoSalt})
    /\ Blank

Init == Start /\ keys = Keys

\* callers that contend on one key
InitConc == Start /\ keys = {"k"}

\* ---------------------------------------------------------------- SQL
\* rowids of the rows with this key
RowsOf(tbl, key) == {i \in 1..Len(tbl) : tbl[i].key = key}
HasRow(tbl, key) == RowsOf(tbl, key) # {}
Min(S) == CHOOSE x \in S : \A y \in S : x <= y

\* SELECT ... FROM Dict WHERE Key=? ; fetchone()
FetchOne(tbl, key) == tbl[Min(RowsOf(tbl, key))]

\* SELECT COUNT(*) FROM Dict
Count(tbl) == Len(tbl)

\* (mutant) only the first row that has any key goes
SqlDeleteFirst(tbl, key) == IF tbl = <<>> THEN tbl ELSE Tail(tbl)

\* DELETE FROM Dict WHERE key=?
SqlDelete(tbl, key) == SelectSeq(tbl, LAMBDA r : r.key # key)

\* INSERT INTO Dict VALUES (?, ?, ?): with the unique index, a second row
\* for a key is refused (sqlite3.IntegrityError) and the table is unchanged
InsertRefused(tbl, key) == indexExists /\ HasRow(tbl, key)
SqlInsert(tbl, row) == Append(tbl, row)

\* (mutant) the row is added and the rows in conflict stay
SqlInsertKeep(tbl, row) == Append(tbl, row)

\* INSERT OR REPLACE INTO Dict VALUES (?, ?): the unique index makes the
\* rows in conflict go before the new one is added
SqlInsertOrReplace(tbl, row) ==
    IF indexExists THEN Append(SqlDelete(tbl, row.key), row)
    ELSE Append(tbl, row)

Row(key, value, salt) == [key |-> key, value |-> value, salt |-> salt]

\* ------------------------------------------------------------- the codec
\* encoder = lambda x: x.encode() ; decoder = lambda x: x.decode()
encoder(value) ==
    IF CanEncode(value) THEN Ret("ok", StrEncode(value))
    ELSE Raise("UnicodeEncodeError")

decoder(data) ==
    LET d == BytesDecode(data)
    IN  IF d.ok THEN Ret("ok", d.s) ELSE Raise("UnicodeDecodeError")

\* a codec the caller may assign in their place:
\* encoder = lambda x: x.encode("latin-1"); decoder = lambda x: x.decode("latin-1")
latin1_encoder(value) ==
    IF \A i \in 1..Len(value) : value[i] < 256 THEN Ret("ok", value)
    ELSE Raise("UnicodeEncodeError")

latin1_decoder(data) == Ret("ok", data)

Codecs == {"default", "latin-1"}

\* self.encoder(value), self.decoder(data): the callables held by the
\* instance when the call is made
self_encoder(self, value) ==
    IF self.encoder = "default" THEN encoder(value) ELSE latin1_encoder(value)

\* (mutant) the decoder the constructor was given, whatever was assigned since
self_decoder_first(self, data) == decoder(data)

self_decoder(self, data) ==
    IF self.decoder = "default" THEN decoder(data) ELSE latin1_decoder(data)

\* --------------------------------------------------------- construction
\* self.password = os.getenv("PASS").encode() if not password
\*                 else password.encode()
\* None stands for the AttributeError of None.encode()
PasswordGiven(password) == password # None /\ password # <<>>

\* (mutant) the environment is asked first
ResolvePasswordEnvFirst(password, env) ==
    IF env # None THEN StrEncode(env)
    ELSE IF PasswordGiven(password) THEN StrEncode(password)
    ELSE None

ResolvePassword(password, env) ==
    IF PasswordGiven(password) THEN StrEncode(password)
    ELSE IF env = None THEN None
    ELSE StrEncode(env)

\* cryptosqldict: the salt of the first row when the table has rows, else
\* the SALT environment value, else the salt argument, else a random one
NeedsRandomSalt(tbl, salt, env) == tbl = <<>> /\ env = NoSalt /\ salt = NoSalt

ResolveSalt(tbl, salt, env, random) ==
    IF tbl # <<>> THEN tbl[1].salt
    ELSE IF env # NoSalt THEN Base64Decode(env)
    ELSE IF salt = NoSalt THEN SaltEncode(Salt("str", random))
    ELSE SaltEncode(salt)

\* ------------------------------------------------------ __getitem__
\* (mutant) the key is derived from the salt alone
fernetgen_nopassword(self, newsalt) == Derive(<<>>, newsalt)

\* flightcryptosqldict._fernetgen(newsalt)
fernetgen(self, newsalt) == Derive(self.password, newsalt)

sqldict_getitem(self, tbl, key) ==
    IF ~HasRow(tbl, key) THEN Raise("KeyError")
    ELSE self_decoder(self, FetchOne(tbl, key).value)

cryptosqldict_getitem(self, tbl, key) ==
    IF ~HasRow(tbl, key) THEN Raise("KeyError")
    ELSE LET row == FetchOne(tbl, key)
         IN  IF FernetVerifies(self.fernet, row.value)
             THEN self_decoder(self, row.value.plain)
             ELSE Raise("InvalidToken")

flight_getitem(self, tbl, key) ==
    IF ~HasRow(tbl, key) THEN Raise("KeyError")
    ELSE LET row == FetchOne(tbl, key)
             newsalt == SaltEncode(row.salt)
             fernet == fernetgen(self, newsalt)
         IN  IF FernetVerifies(fernet, row.value)
             THEN self_decoder(self, row.value.plain)
             ELSE Raise("InvalidToken")

getitem(self, tbl, key) ==
    CASE variant = "plain" -> sqldict_getitem(self, tbl, key)
      [] variant = "shared" -> cryptosqldict_getitem(self, tbl, key)
      [] variant = "flight" -> flight_getitem(self, tbl, key)

\* Mapping.__contains__: try self[key]; except KeyError: False; else True.
\* Any other exception of __getitem__ passes through.
contains(self, tbl, key) ==
    LET r == getitem(self, tbl, key)
    IN  IF r.kind = "KeyError" THEN Ret("False", <<>>)
        ELSE IF r.kind = "ok" THEN Ret("True", <<>>)
        ELSE r

\* __len__
len(tbl) == Ret("ok", <<Count(tbl)>>)

\* --------------------------------------------------------- new rows
\* secrets.token_urlsafe: the n+1st random salt, unlike every one before
token_urlsafe(n) == Salt("str", n + 1)

\* (mutant) the row keeps no salt
flight_newrow_nosalt(self, key, data, salt) ==
    Row(key, FernetEncrypt(fernetgen(self, SaltEncode(salt)), data), NoSalt)

\* flightcryptosqldict.__setitem__, lines 117-123: the row it inserts
flight_newrow(self, key, data, salt) ==
    Row(key, FernetEncrypt(fernetgen(self, SaltEncode(salt)), data), salt)

\* (mutant) the salt argument's default is saved, not the salt in use
cryptosqldict_newrow_othersalt(self, key, data) ==
    Row(key, FernetEncrypt(self.fernet, data), NoSalt)

\* cryptosqldict.__setitem__, lines 122-128: the row it inserts
cryptosqldict_newrow(self, key, data) ==
    Row(key, FernetEncrypt(self.fernet, data), SaltDecode(self.salt))

\* sqldict.__setitem__, lines 88-91: the row it inserts
sqldict_newrow(self, key, data) == Row(key, data, NoSalt)

\* ------------------------------------------------------------- history
\* last[key] tells the value and the caller of a set that succeeded, until a
\* later set on key finishes in any way, a delete of key succeeds, or the
\* instance that ran the set is closed
Returns(c, op, key, arg, r) ==
    /\ pc' = [pc EXCEPT ![c] = "idle"]
    /\ cur' = [cur EXCEPT ![c] = NoCur]
    /\ last' = IF op = "set" /\ ~IsError(r)
               THEN [last EXCEPT ![key] = [op |-> "set", val |-> arg, by |-> c,
                                           pw |-> inst[c].password]]
               ELSE IF op = "set" \/ (op = "del" /\ ~IsError(r))
               THEN [last EXCEPT ![key] = NoLast]
               ELSE IF op = "close"
               THEN [k \in Keys |-> IF last[k].by = c THEN NoLast ELSE last[k]]
               ELSE last

Finish(c, op, key, arg, r) ==
    /\ ret' = Done(c, op, key, <<>>, r)
    /\ Returns(c, op, key, arg, r)

\* the constructor returns or raises
FinishOpen(c, password, salt, r) ==
    /\ ret' = DoneOpen(c, password, salt, r)
    /\ Returns(c, "open", "a", password, r)

Goto(c, label, op, key, arg, pre) ==
    /\ pc' = [pc EXCEPT ![c] = label]
    /\ cur' = [cur EXCEPT ![c] = [op |-> op, key |-> key, val |-> arg, pre |-> pre,
                                       row |-> <<>>]]
    /\ UNCHANGED <<ret, last>>

IsOpen(c) == inst[c].st = "open"
Idle(c) == pc[c] = "idle"

\* sets under way that will still draw a random salt
Pending == Cardinality({c \in Callers : variant = "flight" /\ cur[c].op = "set"})
SaltLeft == nsalt + Pending < MaxSalts

\* ------------------------------------------------------------- __init__
\* the constructor's arguments items and **kwargs: (key, value) pairs in
\* order, and keyword entries, which are a dict (no key twice)
Pairs == {<<k, v>> : k \in Keys, v \in Texts}
KeysOf(s) == {s[i][1] : i \in 1..Len(s)}
NoEntries == [items |-> <<>>, kwargs |-> <<>>]
KwArgs(n) == {s \in [1..n -> Pairs] : Cardinality(KeysOf(s)) = n}
BulkArgs ==
    UNION {UNION {{[items |-> i, kwargs |-> k] : i \in [1..n -> Pairs], k \in KwArgs(m)} :
                     m \in 0..(MaxEntries - n)} : n \in 0..MaxEntries}
    \ {NoEntries}

\* the attributes are set and the schema is there: with no entries the
\* constructor returns, with entries its last line, self.update, is next
\* (and the history forgets the operations of the instances before)
Constructed(c, password, salt, args) ==
    IF args = NoEntries
    THEN FinishOpen(c, password, salt, Ret("ok", <<>>))
    ELSE /\ pc' = [pc EXCEPT ![c] = "init_update"]
         /\ cur' = [cur EXCEPT ![c] =
                      [op |-> "open", key |-> "a", pre |-> rows, row |-> <<>>,
                       val |-> [password |-> password, salt |-> salt,
                                items |-> args.items, kwargs |-> args.kwargs]]]
         /\ ret' = NoRet
         /\ last' = last

CreateSchema ==
    /\ tableExists' = TRUE
    /\ indexExists' = IF tableExists THEN indexExists ELSE TRUE

\* the constructor up to its last line; args are the initial entries
Construct(c, args) ==
    /\ variant \in Variants
    /\ Idle(c)
    /\ ~IsOpen(c)
    /\ \E password \in (IF variant = "plain" THEN {None} ELSE PasswordArgs),
          salt \in (IF variant = "shared" THEN SaltArgs ELSE {NoSalt}) :
        LET pw == ResolvePassword(password, envPASS)
            rnd == variant = "shared" /\ NeedsRandomSalt(rows, salt, envSALT)
            s == ResolveSalt(rows, salt, envSALT, token_urlsafe(nsalt).id)
        IN  /\ rnd => SaltLeft
            /\ UNCHANGED <<envvars, rows>>
            /\ IF variant = "plain" THEN
                   /\ CreateSchema
                   /\ inst' = [inst EXCEPT ![c] = [Connected EXCEPT !.st = "open"]]
                   /\ nsalt' = nsalt
                   /\ Constructed(c, password, salt, args)
               ELSE IF pw = None THEN
                   /\ UNCHANGED <<tableExists, indexExists, nsalt>>
                   /\ inst' = [inst EXCEPT ![c] = Connected]
                   /\ FinishOpen(c, password, salt, Raise("AttributeError"))
               ELSE IF variant = "flight" THEN
                   /\ CreateSchema
                   /\ inst' = [inst EXCEPT ![c] =
                                 [Connected EXCEPT !.st = "open", !.password = pw]]
                   /\ nsalt' = nsalt
                   /\ Constructed(c, password, salt, args)
               ELSE
                   /\ CreateSchema
                   /\ nsalt' = IF rnd THEN nsalt + 1 ELSE nsalt
                   /\ IF KdfOk(s)
                      THEN /\ inst' = [inst EXCEPT ![c] =
                                         [Connected EXCEPT
                                            !.st = "open", !.password = pw,
                                            !.salt = s, !.fernet = Derive(pw, s)]]
                           /\ Constructed(c, password, salt, args)
                      ELSE /\ inst' = [inst EXCEPT ![c] =
                                         Connected]
                           /\ FinishOpen(c, password, salt, Raise("TypeError"))

\* the constructor called with no initial entries
Open(c) == Construct(c, NoEntries)

\* close(): the connection is closed
Close(c) ==
    /\ Idle(c)
    /\ IsOpen(c)
    /\ inst' = [inst EXCEPT ![c] = [NoInst EXCEPT !.st = "closed", !.conn = "closed"]]
    /\ Finish(c, "close", "a", <<>>, Ret("ok", <<>>))
    /\ UNCHANGED <<envvars, dbvars, nsalt>>

\* ---------------------------------------------------------- __getitem__
GetItem(c) ==
    /\ Idle(c)
    /\ IsOpen(c)
    /\ \E key \in keys :
        Finish(c, "get", key, <<>>, getitem(inst[c], rows, key))
    /\ UNCHANGED <<envvars, dbvars, nsalt, inst>>

\* key in store
Contains(c) ==
    /\ Idle(c)
    /\ IsOpen(c)
    /\ \E key \in keys :
        Finish(c, "in", key, <<>>, contains(inst[c], rows, key))
    /\ UNCHANGED <<envvars, dbvars, nsalt, inst>>

\* len(store)
Length(c) ==
    /\ Idle(c)
    /\ IsOpen(c)
    /\ Finish(c, "len", "a", <<>>, len(rows))
    /\ UNCHANGED <<envvars, dbvars, nsalt, inst>>

\* ---------------------------------------------------------- __delitem__
\* line "if key not in self: raise KeyError(key)"; also the first step of
\* the "del self[key]" inside the encrypted __setitem__
DelItemContains(c) ==
    /\ IsOpen(c)
    /\ \/ /\ Idle(c)
          /\ \E key \in keys :
              LET r == contains(inst[c], rows, key)
              IN  IF r.kind = "True"
                  THEN Goto(c, "del_exec", "del", key, <<>>, rows)
                  ELSE IF r.kind = "False"
                  THEN Finish(c, "del", key, <<>>, Raise("KeyError"))
                  ELSE Finish(c, "del", key, <<>>, r)
       \/ /\ pc[c] = "set_del"
          /\ LET r == contains(inst[c], rows, cur[c].key)
             IN  IF r.kind = "True"
                 THEN Goto(c, "del_exec", "set", cur[c].key, cur[c].val, cur[c].pre)
                 ELSE IF r.kind = "False"
                 THEN Finish(c, "set", cur[c].key, cur[c].val, Raise("KeyError"))
                 ELSE Finish(c, "set", cur[c].key, cur[c].val, r)
    /\ UNCHANGED <<envvars, dbvars, nsalt, inst>>

\* with self.conn as c: c.execute("DELETE FROM Dict WHERE key=?")
DelItemExecute(c) ==
    /\ pc[c] = "del_exec"
    /\ rows' = SqlDelete(rows, cur[c].key)
    /\ IF cur[c].op = "set"
       THEN Goto(c, "set_ins", "set", cur[c].key, cur[c].val, cur[c].pre)
       ELSE Finish(c, "del", cur[c].key, <<>>, Ret("ok", <<>>))
    /\ UNCHANGED <<envvars, tableExists, indexExists, nsalt, inst>>

\* ---------------------------------------------------------- __setitem__
\* sqldict: one INSERT OR REPLACE, its arguments evaluated first
PlainSetItem(c) ==
    /\ variant = "plain"
    /\ Idle(c)
    /\ IsOpen(c)
    \* cap on the table's size: without the unique index every
    \* INSERT OR REPLACE adds a row
    /\ Len(rows) <= MaxEntries
    /\ \E key \in keys, value \in Texts :
        LET e == self_encoder(inst[c], value)
        IN  IF IsError(e)
            THEN /\ rows' = rows
                 /\ Finish(c, "set", key, value, e)
            ELSE /\ rows' = SqlInsertOrReplace(rows, sqldict_newrow(inst[c], key, e.val))
                 /\ Finish(c, "set", key, value, Ret("ok", <<>>))
    /\ UNCHANGED <<envvars, tableExists, indexExists, nsalt, inst>>

\* encrypted stores, "if key in self:"
SetItemContains(c) ==
    /\ variant # "plain"
    /\ Idle(c)
    /\ IsOpen(c)
    /\ variant = "flight" => SaltLeft
    /\ \E key \in keys, value \in Texts :
        LET r == contains(inst[c], rows, key)
        IN  IF r.kind = "True" THEN Goto(c, "set_del", "set", key, value, rows)
            ELSE IF r.kind = "False" THEN Goto(c, "set_ins", "set", key, value, rows)
            ELSE Finish(c, "set", key, value, r)
    /\ UNCHANGED <<envvars, dbvars, nsalt, inst>>

\* encrypted stores, from the salt and the encoder to the INSERT
SetItemInsert(c) ==
    /\ pc[c] = "set_ins"
    /\ LET key == cur[c].key
           e == self_encoder(inst[c], cur[c].val)
           salt == token_urlsafe(nsalt)
           row == IF variant = "flight"
                  THEN flight_newrow(inst[c], key, e.val, salt)
                  ELSE cryptosqldict_newrow(inst[c], key, e.val)
       IN  /\ nsalt' = IF variant = "flight" THEN nsalt + 1 ELSE nsalt
           /\ IF IsError(e)
              THEN /\ rows' = rows
                   /\ Finish(c, "set", key, cur[c].val, e)
              ELSE IF InsertRefused(rows, key)
              THEN /\ rows' = rows
                   /\ Finish(c, "set", key, cur[c].val, Raise("IntegrityError"))
              ELSE /\ rows' = SqlInsert(rows, row)
                   /\ Finish(c, "set", key, cur[c].val, Ret("ok", <<>>))
    /\ UNCHANGED <<envvars, tableExists, indexExists, inst>>

\* ------------------------------------------------------- specifications
Step(c) ==
    \/ Open(c)
    \/ Close(c)
    \/ GetItem(c)
    \/ Contains(c)
    \/ Length(c)
    \/ DelItemContains(c)
    \/ DelItemExecute(c)
    \/ PlainSetItem(c)
    \/ SetItemContains(c)
    \/ SetItemInsert(c)

\* a single caller: one instance at a time on the database, one operation
\* at a time
Solo == "c1"
Next == Step(Solo)

Spec == Init /\ [][Next]_vars

\* two callers, each with the instance it opened, whose sets, gets and
\* deletes interleave at every database access
StepConc(c) ==
    \/ Open(c)
    \/ GetItem(c)
    \/ DelItemContains(c)
    \/ DelItemExecute(c)
    \/ PlainSetItem(c)
    \/ SetItemContains(c)
    \/ SetItemInsert(c)

NextConc == \E c \in Callers : StepConc(c)

SpecConc == InitConc /\ [][NextConc]_vars

\* the database file is altered behind the store: the stored ciphertext of
\* a row is corrupted, or its salt column is
CorruptSalt == Salt("str", 0)

Tamper ==
    /\ variant # "plain"
    /\ Idle(Solo)
    /\ \E i \in 1..Len(rows) :
          \/ /\ rows[i].value.sound
             /\ rows' = [rows EXCEPT ![i].value.sound = FALSE]
          \/ /\ rows[i].salt # CorruptSalt
             /\ rows' = [rows EXCEPT ![i].salt = CorruptSalt]
    /\ last' = [k \in Keys |-> NoLast]
    /\ UNCHANGED <<envvars, tableExists, indexExists, nsalt, inst, pc, cur, ret>>

NextTamper == Next \/ Tamper

SpecTamper == Init /\ [][NextTamper]_vars

\* ------------------------------------------------- after close()
\* the methods that go to the connection first thing: __getitem__ (and with
\* it "in", __delitem__ and the encrypted __setitem__), __len__, __iter__
\* through conn.execute; vacuum and the plain __setitem__ through
\* "with self.conn"
ConnMethods == {"get", "in", "del", "set", "len", "iter", "vacuum"}

\* (mutant) the connection does not look at its own state
conn_execute_unchecked(self) == Ret("ok", <<>>)

\* sqlite3.Connection.execute and Connection.__enter__ on this instance's
\* connection: sqlite3.ProgrammingError once it is closed
conn_execute(self) ==
    IF self.st = "closed" THEN Raise("ProgrammingError") ELSE Ret("ok", <<>>)

\* a method called on an instance after its close(): it ends where the
\* connection is first used
ClosedCall(c) ==
    /\ Idle(c)
    /\ inst[c].st = "closed"
    /\ \E op \in ConnMethods, key \in keys :
          Finish(c, op, key, <<>>, conn_execute(inst[c]))
    /\ UNCHANGED <<envvars, dbvars, nsalt, inst>>

NextClosed == Next \/ ClosedCall(Solo)

SpecClosed == Init /\ [][NextClosed]_vars

\* ------------------------------------------------- bulk construction
\* the table and the count of random salts drawn, as a method finds them
\* and as it leaves them with its result r
DB(tbl, n) == [rows |-> tbl, nsalt |-> n]
Outcome(tbl, n, r) == [rows |-> tbl, nsalt |-> n, r |-> r]

\* __setitem__ run by one caller from its first line to its last
setitem(self, db, key, value) ==
    IF variant = "plain" THEN
        LET e == self_encoder(self, value)
        IN  IF IsError(e) THEN Outcome(db.rows, db.nsalt, e)
            ELSE Outcome(SqlInsertOrReplace(db.rows, sqldict_newrow(self, key, e.val)),
                         db.nsalt, Ret("ok", <<>>))
    ELSE
        LET r == contains(self, db.rows, key)
            tbl == IF r.kind = "True" THEN SqlDelete(db.rows, key) ELSE db.rows
            n == IF variant = "flight" THEN db.nsalt + 1 ELSE db.nsalt
            e == self_encoder(self, value)
            row == IF variant = "flight"
                   THEN flight_newrow(self, key, e.val, token_urlsafe(db.nsalt))
                   ELSE cryptosqldict_newrow(self, key, e.val)
        IN  IF IsError(r) THEN Outcome(db.rows, db.nsalt, r)
            ELSE IF IsError(e) THEN Outcome(tbl, n, e)
            ELSE IF InsertRefused(tbl, key) THEN Outcome(tbl, n, Raise("IntegrityError"))
            ELSE Outcome(SqlInsert(tbl, row), n, Ret("ok", <<>>))

\* for key, value in pairs: self[key] = value; after a set that left d the
\* loop goes on with the pairs that remain, unless the set raised
RECURSIVE setall(_, _, _)
RECURSIVE setrest(_, _, _)
setrest(self, d, pairs) ==
    IF IsError(d.r) THEN d ELSE setall(self, DB(d.rows, d.nsalt), pairs)

setall(self, db, pairs) ==
    IF pairs = <<>> THEN Outcome(db.rows, db.nsalt, Ret("ok", <<>>))
    ELSE setrest(self, setitem(self, db, pairs[1][1], pairs[1][2]), Tail(pairs))

\* (mutant) the keyword entries are set before the pairs
update_kwds_first(self, db, other, kwds) ==
    setrest(self, setall(self, db, kwds), other)

\* MutableMapping.update(other, **kwds): the pairs of other in order, then
\* the keyword entries
update(self, db, other, kwds) ==
    setrest(self, setall(self, db, other), kwds)

\* the constructor called with initial entries
OpenItems(c) ==
    \E args \in BulkArgs :
        /\ variant = "flight" =>
              nsalt + Len(args.items) + Len(args.kwargs) <= MaxSalts
        /\ Construct(c, args)

\* self.update(items, **kwargs), the constructor's last line; an exception
\* of a set leaves the constructor and no instance is handed out (the
\* history keeps the entries of the constructions that returned)
InitUpdate(c) ==
    /\ pc[c] = "init_update"
    /\ LET a == cur[c].val
           d == update(inst[c], DB(rows, nsalt), a.items, a.kwargs)
       IN  /\ rows' = d.rows
           /\ nsalt' = d.nsalt
           /\ inst' = IF IsError(d.r) THEN [inst EXCEPT ![c] = Connected] ELSE inst
           /\ ret' = [DoneOpen(c, a.password, a.salt, d.r)
                        EXCEPT !.entries = IF IsError(d.r) THEN <<>>
                                           ELSE a.items \o a.kwargs]
           /\ Returns(c, "open", "a", a.password, d.r)
    /\ UNCHANGED <<envvars, tableExists, indexExists>>

NextBulk ==
    \/ Open(Solo)
    \/ OpenItems(Solo)
    \/ InitUpdate(Solo)
    \/ GetItem(Solo)
    \/ PlainSetItem(Solo)
    \/ SetItemContains(Solo)
    \/ DelItemContains(Solo)
    \/ DelItemExecute(Solo)
    \/ SetItemInsert(Solo)
    \/ Close(Solo)

\* no PASS and no SALT in the environment
InitBulk == Init /\ envPASS = None /\ envSALT = NoSalt

SpecBulk == InitBulk /\ [][NextBulk]_vars

\* ---------------------------------------------------------- __iter__
\* (mutant) fetchone() in place of fetchall()
sqldict_iter_fetchone(tbl) == IF tbl = <<>> THEN <<>> ELSE <<tbl[1].key>>

\* c = conn.execute("SELECT key FROM Dict"); map(itemgetter(0), c.fetchall()):
\* the list of the keys of all rows, made when iter is called
sqldict_iter(tbl) == [i \in 1..Len(tbl) |-> tbl[i].key]

\* iter(store): rest is the part of the list the map object has not handed
\* out; out (what it has) and snap (the keys that had a row when the query
\* ran) are history
Iter(c) ==
    /\ Idle(c)
    /\ IsOpen(c)
    /\ iters' = [iters EXCEPT ![c] =
                   [live |-> TRUE, rest |-> sqldict_iter(rows), out |-> <<>>,
                    snap |-> {k \in Keys : HasRow(rows, k)}]]
    /\ UNCHANGED <<variant, keys, envPASS, envSALT, dbvars, nsalt, inst, pc, cur,
                   ret, last, cache, derived, files>>

\* next(iterator), between the caller's other operations
IterNext(c) ==
    /\ Idle(c)
    /\ iters[c].live
    /\ iters[c].rest # <<>>
    /\ iters' = [iters EXCEPT ![c].rest = Tail(@),
                              ![c].out = Append(@, Head(iters[c].rest))]
    /\ UNCHANGED <<variant, keys, envPASS, envSALT, dbvars, nsalt, inst, pc, cur,
                   ret, last, cache, derived, files>>

InitIter == Init /\ envPASS = None /\ envSALT = NoSalt

NextIter ==
    \/ Open(Solo)
    \/ Close(Solo)
    \/ PlainSetItem(Solo)
    \/ SetItemContains(Solo)
    \/ DelItemContains(Solo)
    \/ DelItemExecute(Solo)
    \/ SetItemInsert(Solo)
    \/ Iter(Solo)
    \/ IterNext(Solo)

SpecIter == InitIter /\ [][NextIter]_vars

\* ------------------------------------------------- codec assignment
\* store.encoder = f; store.decoder = g
SetCodec(c) ==
    /\ Idle(c)
    /\ IsOpen(c)
    /\ \E e \in Codecs, d \in Codecs :
          /\ <<e, d>> # <<inst[c].encoder, inst[c].decoder>>
          /\ inst' = [inst EXCEPT ![c].encoder = e, ![c].decoder = d]
    /\ UNCHANGED <<envvars, dbvars, nsalt, pc, cur, ret, last>>

NextCodec ==
    \/ Open(Solo)
    \/ Close(Solo)
    \/ SetCodec(Solo)
    \/ GetItem(Solo)
    \/ PlainSetItem(Solo)
    \/ SetItemContains(Solo)
    \/ DelItemContains(Solo)
    \/ DelItemExecute(Solo)
    \/ SetItemInsert(Solo)

SpecCodec == InitIter /\ [][NextCodec]_vars

\* ===================================================== derivation cache
\* src/cryptosqldict.py: SQLDict with a salt per entry, as in
\* flightcryptosqldict.py, and @lru_cache(maxsize=234375) on _fernetgen
maxsize == 234375

\* functools.lru_cache, keyed by the argument newsalt
lru_hit(c, key) == \E i \in 1..Len(c) : c[i] = key

\* a hit makes the entry the most recently used
lru_touch(c, key) == SelectSeq(c, LAMBDA k : k # key) \o <<key>>

\* (mutant) nothing is kept
lru_store_nothing(c, key) == c

\* after the call of the wrapped function: the result is stored, unless the
\* key got into the cache while the function ran; a full cache drops its
\* least recently used entry
lru_store(c, key) ==
    IF lru_hit(c, key) THEN c
    ELSE IF Len(c) >= maxsize THEN Append(Tail(c), key)
    ELSE Append(c, key)

\* one call self._fernetgen(newsalt) by a single thread; k is the cache and
\* the derivations so far
Cached(c, d) == [cache |-> c, derived |-> d]

cached_call(k, newsalt) ==
    IF lru_hit(k.cache, newsalt)
    THEN Cached(lru_touch(k.cache, newsalt), k.derived)
    ELSE Cached(lru_store(k.cache, newsalt), Append(k.derived, newsalt))

RECURSIVE cached_calls(_, _)
cached_calls(k, salts) ==
    IF salts = <<>> THEN k
    ELSE cached_calls(cached_call(k, Head(salts)), Tail(salts))

\* src/cryptosqldict.py __getitem__
cached_getitem(self, tbl, key) ==
    IF ~HasRow(tbl, key) THEN Raise("KeyError")
    ELSE LET row == FetchOne(tbl, key)
             newsalt == SaltEncode(row.salt)
             fernet == Derive(self.password, newsalt)
         IN  IF FernetVerifies(fernet, row.value)
             THEN self_decoder(self, row.value.plain)
             ELSE Raise("InvalidToken")

\* the salts __getitem__ hands to _fernetgen
getitem_salts(tbl, key) ==
    IF HasRow(tbl, key) THEN <<SaltEncode(FetchOne(tbl, key).salt)>> ELSE <<>>

cached_contains(self, tbl, key) ==
    LET r == cached_getitem(self, tbl, key)
    IN  IF r.kind = "KeyError" THEN Ret("False", <<>>)
        ELSE IF r.kind = "ok" THEN Ret("True", <<>>)
        ELSE r

\* src/cryptosqldict.py __setitem__, from its first line to its last
cached_setitem(self, db, key, value) ==
    LET r == cached_contains(self, db.rows, key)
        tbl == IF r.kind = "True" THEN SqlDelete(db.rows, key) ELSE db.rows
        salt == token_urlsafe(db.nsalt)
        e == self_encoder(self, value)
        fernet == Derive(self.password, SaltEncode(salt))
    IN  IF IsError(r) THEN Outcome(db.rows, db.nsalt, r)
        ELSE IF IsError(e) THEN Outcome(tbl, db.nsalt + 1, e)
        ELSE IF InsertRefused(tbl, key)
        THEN Outcome(tbl, db.nsalt + 1, Raise("IntegrityError"))
        ELSE Outcome(SqlInsert(tbl, Row(key, FernetEncrypt(fernet, e.val), salt)),
                     db.nsalt + 1, Ret("ok", <<>>))

\* the salts __setitem__ hands to _fernetgen: the row's salt in "key in
\* self", again in the "key not in self" of "del self[key]", then the new
\* salt, as far as no exception ends the method before
setitem_salts(self, db, key, value) ==
    LET r == cached_contains(self, db.rows, key)
        g == getitem_salts(db.rows, key)
    IN  IF IsError(r) THEN g
        ELSE (IF r.kind = "True" THEN g \o g ELSE <<>>)
             \o (IF IsError(self_encoder(self, value)) THEN <<>>
                 ELSE <<SaltEncode(token_urlsafe(db.nsalt))>>)

\* src/cryptosqldict.py __init__: a new instance, its cache empty
CachedOpen(c) ==
    /\ Idle(c)
    /\ ~IsOpen(c)
    /\ \E password \in PasswordArgs :
        LET pw == ResolvePassword(password, envPASS)
        IN  IF pw = None
            THEN /\ inst' = [inst EXCEPT ![c] = Connected]
                 /\ FinishOpen(c, password, NoSalt, Raise("AttributeError"))
                 /\ UNCHANGED <<tableExists, indexExists, cache, derived>>
            ELSE /\ CreateSchema
                 /\ inst' = [inst EXCEPT ![c] =
                               [Connected EXCEPT !.st = "open", !.password = pw]]
                 /\ cache' = <<>>
                 /\ derived' = <<>>
                 /\ FinishOpen(c, password, NoSalt, Ret("ok", <<>>))
    /\ UNCHANGED <<variant, keys, envPASS, envSALT, rows, nsalt, iters, files>>

CachedSetItem(c) ==
    /\ Idle(c)
    /\ IsOpen(c)
    /\ nsalt < MaxSalts
    /\ \E key \in keys, value \in Texts :
        LET d == cached_setitem(inst[c], DB(rows, nsalt), key, value)
            k == cached_calls(Cached(cache, derived),
                              setitem_salts(inst[c], DB(rows, nsalt), key, value))
        IN  /\ rows' = d.rows
            /\ nsalt' = d.nsalt
            /\ cache' = k.cache
            /\ derived' = k.derived
            /\ Finish(c, "set", key, value, d.r)
    /\ UNCHANGED <<variant, keys, envPASS, envSALT, tableExists, indexExists, inst,
                   iters, files>>

CachedGetItem(c) ==
    /\ Idle(c)
    /\ IsOpen(c)
    /\ \E key \in keys :
        LET k == cached_calls(Cached(cache, derived), getitem_salts(rows, key))
        IN  /\ cache' = k.cache
            /\ derived' = k.derived
            /\ Finish(c, "get", key, <<>>, cached_getitem(inst[c], rows, key))
    /\ UNCHANGED <<variant, keys, envPASS, envSALT, dbvars, nsalt, inst, iters,
                   files>>

\* src/cryptosqldict.py __delitem__
CachedDelItem(c) ==
    /\ Idle(c)
    /\ IsOpen(c)
    /\ \E key \in keys :
        LET r == cached_contains(inst[c], rows, key)
            k == cached_calls(Cached(cache, derived), getitem_salts(rows, key))
        IN  /\ cache' = k.cache
            /\ derived' = k.derived
            /\ rows' = IF r.kind = "True" THEN SqlDelete(rows, key) ELSE rows
            /\ Finish(c, "del", key, <<>>,
                      IF r.kind = "True" THEN Ret("ok", <<>>)
                      ELSE IF r.kind = "False" THEN Raise("KeyError")
                      ELSE r)
    /\ UNCHANGED <<variant, keys, envPASS, envSALT, tableExists, indexExists, nsalt,
                   inst, iters, files>>

InitCache ==
    /\ variant = "cached"
    /\ keys = Keys
    /\ envPASS \in EnvPasswords
    /\ envSALT = NoSalt
    /\ Blank

NextCache ==
    \/ CachedOpen(Solo)
    \/ Close(Solo)
    \/ CachedSetItem(Solo)
    \/ CachedGetItem(Solo)
    \/ CachedDelItem(Solo)

SpecCache == InitCache /\ [][NextCache]_vars

\* ============================================================= FileDict
\* src/flightcryptofiledict.py: one file per entry in the directory dirname,
\* named key____salt, its content the value encrypted under the key derived
\* from the password and that salt.  The instance is the one held by Solo;
\* the callers are the threads that share it.

\* the characters keys are written with
Alphabet == {"a", "_"}
Str(n) == UNION {[1..m -> Alphabet] : m \in 1..n}

\* the separator of the file names
Sep == <<"_", "_", "_", "_">>

\* str.find: where t first occurs in s, 0 when it does not
Find(s, t) ==
    LET at == {i \in 1..(Len(s) - Len(t) + 1) : SubSeq(s, i, i + Len(t) - 1) = t}
    IN  IF at = {} THEN 0 ELSE Min(at)

Has(s, t) == Find(s, t) # 0

\* str.split(sep): the pieces between the occurrences of sep, found from
\* the left, one after the end of the other
RECURSIVE split(_, _)
split(s, sep) ==
    LET j == Find(s, sep)
    IN  IF j = 0 THEN <<s>>
        ELSE <<SubSeq(s, 1, j - 1)>> \o split(SubSeq(s, j + Len(sep), Len(s)), sep)

\* the keys the docstring allows: no quadruple underscore
FileKeys == {k \in Str(MaxKeyLen) : ~Has(k, Sep)}

\* secrets.token_urlsafe(64) as text: unlike every salt before; its first
\* character may be an underscore
Leads == {<<>>, <<"_">>}
token_urlsafe_text(n, lead) == Salt("str", lead \o [i \in 1..(n + 1) |-> "x"])

\* a file: its name in the directory and the Fernet token written to it;
\* key is the key of the set that wrote it (history)
File(name, token, key) == [name |-> name, token |-> token, key |-> key]

\* glob(f"{fullpath}____*"): the files whose name begins with key____
glob(dir, key) ==
    {f \in dir : Len(f.name) >= Len(key) + Len(Sep)
                 /\ SubSeq(f.name, 1, Len(key) + Len(Sep)) = key \o Sep}

\* os.remove(fullname)
Exists(dir, name) == \E f \in dir : f.name = name
Remove(dir, name) == {f \in dir : f.name # name}

\* open(fullname, "wb") ... f.write(value)
Write(dir, f) == Remove(dir, f.name) \cup {f}

\* fullname.split("____")[1]
SaltOf(name) == Salt("str", split(name, Sep)[2])

\* [file.split("____")[0] for file in os.listdir(self.dirname)]: listdir
\* gives the names in no particular order, so the list is kept as the
\* number of times each key is yielded
Yielded(dir) == {split(f.name, Sep)[1] : f \in dir}
filedict_iter(dir) ==
    [k \in Yielded(dir) |-> Cardinality({f \in dir : split(f.name, Sep)[1] = k})]

\* fernet.decrypt(value); return self.decoder(decrypt)
filedict_read(self, f, salt) ==
    IF FernetVerifies(Derive(self.password, SaltEncode(salt)), f.token)
    THEN self_decoder(self, f.token.plain)
    ELSE Raise("InvalidToken")

\* the caller holds a FileDict on the directory (st is "open" or "closed"
\* for the connection of a SQLDict)
OnDir(c) == inst[c].st = "dir"

FileFinish(c, op, key, arg, r) ==
    /\ ret' = Done(c, op, key, arg, r)
    /\ pc' = [pc EXCEPT ![c] = "idle"]
    /\ cur' = [cur EXCEPT ![c] = NoCur]
    /\ UNCHANGED last

Call(name, salt, data) == [name |-> name, salt |-> salt, data |-> data]

\* FileDict(dirname, password=...): the instance on the directory, its
\* cache empty; the directory is made unless it exists
FileOpen(c) ==
    /\ variant = "file"
    /\ ~OnDir(c)
    /\ \A d \in Callers : Idle(d)
    /\ \E password \in PasswordArgs :
        LET pw == ResolvePassword(password, envPASS)
        IN  IF pw = None
            THEN /\ inst' = [inst EXCEPT ![c] = NoInst]
                 /\ FileFinish(c, "open", <<>>, password, Raise("AttributeError"))
            ELSE /\ inst' = [inst EXCEPT ![c] =
                               [NoInst EXCEPT !.st = "dir", !.password = pw]]
                 /\ FileFinish(c, "open", <<>>, password, Ret("ok", <<>>))
    /\ cache' = <<>>
    /\ derived' = <<>>
    /\ UNCHANGED <<variant, keys, envPASS, envSALT, dbvars, nsalt, iters, files>>

\* __setitem__ from "salt = secrets.token_urlsafe(64)" to the call of
\* fernetgen
SetSalt(c, key, value) ==
    \E lead \in Leads :
        LET salt == token_urlsafe_text(nsalt, lead)
            e == self_encoder(inst[Solo], value)
        IN  /\ nsalt' = nsalt + 1
            /\ IF IsError(e) THEN FileFinish(c, "set", key, value, e)
               ELSE Goto(c, "lookup", "set", key, value,
                         Call(key \o Sep \o salt.id, salt, e.val))

\* __setitem__: fullnames = glob(...)
FileSetGlob(c) ==
    /\ Idle(c)
    /\ OnDir(Solo)
    /\ nsalt + Cardinality({d \in Callers : pc[d] = "set_remove"}) < MaxSalts
    /\ \E key \in keys, value \in Texts :
        IF glob(files, key) = {} THEN SetSalt(c, key, value)
        ELSE \E f \in glob(files, key) :
                /\ Goto(c, "set_remove", "set", key, value, Call(f.name, NoSalt, <<>>))
                /\ UNCHANGED nsalt
    /\ UNCHANGED <<variant, keys, envPASS, envSALT, dbvars, inst, aside>>

\* __setitem__: os.remove(fullnames[0])
FileSetRemove(c) ==
    /\ pc[c] = "set_remove"
    /\ IF Exists(files, cur[c].pre.name)
       THEN /\ files' = Remove(files, cur[c].pre.name)
            /\ SetSalt(c, cur[c].key, cur[c].val)
       ELSE /\ FileFinish(c, "set", cur[c].key, cur[c].val, Raise("FileNotFoundError"))
            /\ UNCHANGED <<files, nsalt>>
    /\ UNCHANGED <<variant, keys, envPASS, envSALT, dbvars, inst, iters, cache,
                   derived>>

\* where the caller of fernetgen goes on
After(c) == IF cur[c].op = "set" THEN "set_write" ELSE "get_open"

\* self.fernetgen(newsalt): the wrapper of lru_cache looks the salt up
FernetgenLookup(c) ==
    /\ pc[c] = "lookup"
    /\ LET newsalt == SaltEncode(cur[c].pre.salt)
       IN  IF lru_hit(cache, newsalt)
           THEN /\ cache' = lru_touch(cache, newsalt)
                /\ pc' = [pc EXCEPT ![c] = After(c)]
           ELSE /\ pc' = [pc EXCEPT ![c] = "derive"]
                /\ UNCHANGED cache
    /\ UNCHANGED <<variant, keys, envPASS, envSALT, dbvars, nsalt, inst, cur, ret,
                   last, iters, derived, files>>

\* the body of fernetgen: PBKDF2HMAC(...).derive(self.password)
FernetgenDerive(c) ==
    /\ pc[c] = "derive"
    /\ derived' = Append(derived, SaltEncode(cur[c].pre.salt))
    /\ pc' = [pc EXCEPT ![c] = "store"]
    /\ UNCHANGED <<variant, keys, envPASS, envSALT, dbvars, nsalt, inst, cur, ret,
                   last, iters, cache, files>>

\* the wrapper of lru_cache keeps the result and returns it
FernetgenStore(c) ==
    /\ pc[c] = "store"
    /\ cache' = lru_store(cache, SaltEncode(cur[c].pre.salt))
    /\ pc' = [pc EXCEPT ![c] = After(c)]
    /\ UNCHANGED <<variant, keys, envPASS, envSALT, dbvars, nsalt, inst, cur, ret,
                   last, iters, derived, files>>

\* __setitem__: with open(fullname, "wb") as f: f.write(fernet.encrypt(value))
FileSetWrite(c) ==
    /\ pc[c] = "set_write"
    /\ LET fernet == Derive(inst[Solo].password, SaltEncode(cur[c].pre.salt))
       IN  files' = Write(files, File(cur[c].pre.name,
                                      FernetEncrypt(fernet, cur[c].pre.data),
                                      cur[c].key))
    /\ FileFinish(c, "set", cur[c].key, cur[c].val, Ret("ok", <<>>))
    /\ UNCHANGED <<variant, keys, envPASS, envSALT, dbvars, nsalt, inst, iters,
                   cache, derived>>

\* __getitem__: fullname = glob(...)[0]; salt = fullname.split("____")[1]
FileGetGlob(c) ==
    /\ Idle(c)
    /\ OnDir(Solo)
    /\ \E key \in keys :
        IF glob(files, key) = {}
        THEN FileFinish(c, "get", key, <<>>, Raise("KeyError"))
        ELSE \E f \in glob(files, key) :
                Goto(c, "lookup", "get", key, <<>>,
                     Call(f.name, SaltOf(f.name), <<>>))
    /\ UNCHANGED <<variant, keys, envPASS, envSALT, dbvars, nsalt, inst, aside>>

\* __getitem__: with open(fullname, "rb") as f: ... return self.decoder(decrypt)
FileGetOpen(c) ==
    /\ pc[c] = "get_open"
    /\ FileFinish(c, "get", cur[c].key, <<>>,
          IF ~Exists(files, cur[c].pre.name) THEN Raise("KeyError")
          ELSE filedict_read(inst[Solo],
                             CHOOSE f \in files : f.name = cur[c].pre.name,
                             cur[c].pre.salt))
    /\ UNCHANGED <<variant, keys, envPASS, envSALT, dbvars, nsalt, inst, aside>>

\* __delitem__: fullname = glob(...)[0]
FileDelGlob(c) ==
    /\ Idle(c)
    /\ OnDir(Solo)
    /\ \E key \in keys :
        IF glob(files, key) = {}
        THEN FileFinish(c, "del", key, <<>>, Raise("IndexError"))
        ELSE \E f \in glob(files, key) :
                Goto(c, "del_remove", "del", key, <<>>, Call(f.name, NoSalt, <<>>))
    /\ UNCHANGED <<variant, keys, envPASS, envSALT, dbvars, nsalt, inst, aside>>

\* __delitem__: os.remove(fullname)
FileDelRemove(c) ==
    /\ pc[c] = "del_remove"
    /\ files' = Remove(files, cur[c].pre.name)
    /\ FileFinish(c, "del", cur[c].key, <<>>,
          IF Exists(files, cur[c].pre.name) THEN Ret("ok", <<>>)
          ELSE Raise("KeyError"))
    /\ UNCHANGED <<variant, keys, envPASS, envSALT, dbvars, nsalt, inst, iters,
                   cache, derived>>

\* list(store)
FileIter(c) ==
    /\ Idle(c)
    /\ OnDir(Solo)
    /\ FileFinish(c, "iter", <<>>, <<>>, Ret("ok", filedict_iter(files)))
    /\ UNCHANGED <<variant, keys, envPASS, envSALT, dbvars, nsalt, inst, aside>>

FileStep(c) ==
    \/ FileSetGlob(c)
    \/ FileSetRemove(c)
    \/ FernetgenLookup(c)
    \/ FernetgenDerive(c)
    \/ FernetgenStore(c)
    \/ FileSetWrite(c)
    \/ FileGetGlob(c)
    \/ FileGetOpen(c)
    \/ FileDelGlob(c)
    \/ FileDelRemove(c)
    \/ FileIter(c)

\* one thread, one or two keys
InitFile ==
    /\ variant = "file"
    /\ keys \in {{k} : k \in FileKeys} \cup {{<<"a">>, <<"a", "_">>}}
    /\ envPASS \in EnvPasswords
    /\ envSALT = NoSalt
    /\ Blank

NextFile == FileOpen(Solo) \/ FileStep(Solo)

SpecFile == InitFile /\ [][NextFile]_vars

\* the directories an earlier instance with password "p" may have left
\* after sets of the keys "a" and "aa"
Left(key, salt, v) ==
    File(key \o Sep \o salt,
         FernetEncrypt(Derive(StrEncode(<<112>>), Salt("bytes", salt)), StrEncode(v)),
         key)

Earlier ==
    LET vs == {t \in Texts : CanEncode(t)}
    IN  {{}} \cup {{Left(<<"a">>, <<"s">>, v)} : v \in vs}
             \cup {{Left(<<"a">>, <<"s">>, v), Left(<<"a", "a">>, <<"t">>, v)} : v \in vs}

\* two threads on the one instance, two keys
InitFileConc ==
    /\ variant = "file"
    /\ keys = {<<"a">>, <<"a", "a">>}
    /\ envPASS = None
    /\ envSALT = NoSalt
    /\ tableExists = FALSE
    /\ indexExists = FALSE
    /\ rows = <<>>
    /\ nsalt = 0
    /\ inst = [c \in Callers |-> NoInst]
    /\ pc = [c \in Callers |-> "idle"]
    /\ cur = [c \in Callers |-> NoCur]
    /\ ret = NoRet
    /\ last = [k \in Keys |-> NoLast]
    /\ iters = [c \in Callers |-> NoIter]
    /\ cache = <<>>
    /\ derived = <<>>
    /\ files \in Earlier

\* the threads read
NextFileConc ==
    \/ FileOpen(Solo)
    \/ \E c \in Callers :
        \/ FileGetGlob(c)
        \/ FernetgenLookup(c)
        \/ FernetgenDerive(c)
        \/ FernetgenStore(c)
        \/ FileGetOpen(c)

SpecFileConc == InitFileConc /\ [][NextFileConc]_vars

\* ============================================================ __repr__
\* self.dbname, the one database file of the model
dbname == "dict.db"

\* (mutant) the password is shown as well
sql_repr_password(self) ==
    [type |-> "SQLDict", dbname |-> dbname, password |-> self.password]

\* the encrypted SQLDicts: f"{type(self).__name__}(dbname={self.dbname!r})",
\* kept as the fields the text is made of
sql_repr(self) == [type |-> "SQLDict", dbname |-> dbname]

\* repr(store) of an encrypted SQLDict, open or closed
Repr(c) ==
    /\ Idle(c)
    /\ inst[c].st # "none"
    /\ variant \in {"shared", "flight"}
    /\ Finish(c, "repr", "a", <<>>, Ret("ok", sql_repr(inst[c])))
    /\ UNCHANGED <<envvars, dbvars, nsalt, inst>>

\* os.listdir(self.dirname): the files in any order
Orders(dir) ==
    {o \in [1..Cardinality(dir) -> dir] :
        \A i, j \in 1..Cardinality(dir) : o[i] = o[j] => i = j}

\* for every key yielded, the file glob(...)[0] that __getitem__ reads
Picks(dir) ==
    {p \in [dir -> dir] : \A f \in dir : p[f] \in glob(dir, split(f.name, Sep)[1])}

\* tuple(self.items()): for each key of __iter__ the pair (key, self[key]),
\* up to the first __getitem__ that raises; k is the cache of fernetgen
RECURSIVE items(_, _, _, _, _)
items(self, todo, pick, k, out) ==
    IF todo = <<>> THEN [k |-> k, r |-> Ret("ok", out)]
    ELSE LET f == pick[Head(todo)]
             salt == SaltOf(f.name)
             r == filedict_read(self, f, salt)
             k2 == cached_call(k, SaltEncode(salt))
         IN  IF IsError(r) THEN [k |-> k2, r |-> r]
             ELSE items(self, Tail(todo), pick, k2,
                        Append(out, <<split(Head(todo).name, Sep)[1], r.val>>))

\* FileDict.__repr__: f"FileDict{tuple(self.items())}", every outcome the
\* orders of listdir and glob allow
filedict_repr(self, dir, k) ==
    {LET w == items(self, o, p, k, <<>>)
     IN  [k |-> w.k,
          r |-> IF IsError(w.r) THEN w.r
                ELSE Ret("ok", [type |-> "FileDict", items |-> w.r.val])] :
     o \in Orders(dir), p \in Picks(dir)}

\* repr(store) of a FileDict
FileRepr(c) ==
    /\ Idle(c)
    /\ OnDir(Solo)
    /\ \E w \in filedict_repr(inst[Solo], files, Cached(cache, derived)) :
        /\ cache' = w.k.cache
        /\ derived' = w.k.derived
        /\ FileFinish(c, "repr", <<>>, <<>>, w.r)
    /\ UNCHANGED <<variant, keys, envPASS, envSALT, dbvars, nsalt, inst, iters,
                   files>>

\* the encrypted stores, one caller
InitRepr ==
    /\ variant \in {"shared", "flight", "file"}
    /\ keys \in (IF variant = "file" THEN {{<<"a">>, <<"a", "a">>}, {<<"a", "_">>}}
                 ELSE {Keys})
    /\ envPASS \in EnvPasswords
    /\ envSALT \in (IF variant = "shared" THEN EnvSalts ELSE {NoSalt})
    /\ Blank

SqlStep(c) ==
    \/ Open(c)
    \/ Close(c)
    \/ GetItem(c)
    \/ DelItemContains(c)
    \/ DelItemExecute(c)
    \/ SetItemContains(c)
    \/ SetItemInsert(c)
    \/ Repr(c)

\* the FileDict is written and shown
NextRepr ==
    \/ SqlStep(Solo)
    \/ FileOpen(Solo)
    \/ FileSetGlob(Solo)
    \/ FileSetRemove(Solo)
    \/ FernetgenLookup(Solo)
    \/ FernetgenDerive(Solo)
    \/ FernetgenStore(Solo)
    \/ FileSetWrite(Solo)
    \/ FileRepr(Solo)

SpecRepr == InitRepr /\ [][NextRepr]_vars

\* ------------------------------------------------ overwrite and a reader
\* one caller writes, the other only reads, each on its own connection to
\* the one database
Reads(c) ==
    \/ Open(c)
    \/ GetItem(c)
    \/ Contains(c)
    \/ Length(c)

NextOverwrite == StepConc("c1") \/ Reads("c2")

SpecOverwrite == InitConc /\ [][NextOverwrite]_vars

\* -------------------------------------------- an initialization that stops
\* the process running the constructor ends after
\* c.execute("CREATE TABLE Dict ...") and before
\* c.execute("CREATE UNIQUE INDEX KIndx ON Dict (key)"); sqlite3 runs the
\* CREATE TABLE in autocommit, so the table stays
InitStops ==
    /\ ~tableExists
    /\ tableExists' = TRUE
    /\ UNCHANGED <<envvars, indexExists, rows, nsalt, inst, pc, cur, ret, last>>

NextStops == Next \/ InitStops

SpecStops == Init /\ [][NextStops]_vars

\* ------------------------------------------- set, statement by statement
\* sqlite3 opens a transaction before a DELETE or an INSERT and the
\* `with self.conn` block commits it when it is left; in_transaction is
\* the connection's attribute of that name
Begin(c) == inst' = [inst EXCEPT ![c].in_transaction = TRUE]
Commit(c) == inst' = [inst EXCEPT ![c].in_transaction = FALSE]

\* __delitem__: the DELETE has run, its `with` block is not left yet
TxnDelete(c) ==
    /\ pc[c] = "del_exec"
    /\ rows' = SqlDelete(rows, cur[c].key)
    /\ Begin(c)
    /\ pc' = [pc EXCEPT ![c] = "del_commit"]
    /\ UNCHANGED <<envvars, tableExists, indexExists, nsalt, cur, ret, last>>

\* a delete that leaves its `with` block without committing
LeaveOpen(c) ==
    /\ pc[c] = "del_commit"
    /\ inst' = inst
    /\ IF cur[c].op = "set"
       THEN Goto(c, "set_ins", "set", cur[c].key, cur[c].val, cur[c].pre)
       ELSE Finish(c, "del", cur[c].key, <<>>, Ret("ok", <<>>))
    /\ UNCHANGED <<envvars, dbvars, nsalt>>

\* __delitem__: the `with` block is left, the DELETE is committed
CommitDelete(c) ==
    /\ pc[c] = "del_commit"
    /\ Commit(c)
    /\ IF cur[c].op = "set"
       THEN Goto(c, "set_ins", "set", cur[c].key, cur[c].val, cur[c].pre)
       ELSE Finish(c, "del", cur[c].key, <<>>, Ret("ok", <<>>))
    /\ UNCHANGED <<envvars, dbvars, nsalt>>

\* __setitem__ of the encrypted stores from the salt to fernet.encrypt:
\* the row to insert is computed
SetItemEncrypt(c) ==
    /\ pc[c] = "set_ins"
    /\ LET key == cur[c].key
           e == self_encoder(inst[c], cur[c].val)
           salt == token_urlsafe(nsalt)
           row == IF variant = "flight"
                  THEN flight_newrow(inst[c], key, e.val, salt)
                  ELSE cryptosqldict_newrow(inst[c], key, e.val)
       IN  /\ nsalt' = IF variant = "flight" THEN nsalt + 1 ELSE nsalt
           /\ IF IsError(e)
              THEN Finish(c, "set", key, cur[c].val, e)
              ELSE /\ pc' = [pc EXCEPT ![c] = "set_exec"]
                   /\ cur' = [cur EXCEPT ![c].row = row]
                   /\ UNCHANGED <<ret, last>>
    /\ UNCHANGED <<envvars, dbvars, inst>>

\* with self.conn as c: c.execute("INSERT INTO  Dict VALUES (?, ?, ?)");
\* a refused INSERT raises inside the block, which rolls back
TxnInsert(c) ==
    /\ pc[c] = "set_exec"
    /\ IF InsertRefused(rows, cur[c].key)
       THEN /\ rows' = rows
            /\ Commit(c)
            /\ Finish(c, "set", cur[c].key, cur[c].val, Raise("IntegrityError"))
       ELSE /\ rows' = SqlInsert(rows, cur[c].row)
            /\ Begin(c)
            /\ pc' = [pc EXCEPT ![c] = "set_commit"]
            /\ UNCHANGED <<cur, ret, last>>
    /\ UNCHANGED <<envvars, tableExists, indexExists, nsalt>>

\* __setitem__: the `with` block is left, the INSERT is committed
CommitInsert(c) ==
    /\ pc[c] = "set_commit"
    /\ Commit(c)
    /\ Finish(c, "set", cur[c].key, cur[c].val, Ret("ok", <<>>))
    /\ UNCHANGED <<envvars, dbvars, nsalt>>

NextTxn ==
    \/ Open(Solo)
    \/ Close(Solo)
    \/ GetItem(Solo)
    \/ Contains(Solo)
    \/ Length(Solo)
    \/ DelItemContains(Solo)
    \/ TxnDelete(Solo)
    \/ CommitDelete(Solo)
    \/ PlainSetItem(Solo)
    \/ SetItemContains(Solo)
    \/ SetItemEncrypt(Solo)
    \/ TxnInsert(Solo)
    \/ CommitInsert(Solo)

SpecTxn == Init /\ [][NextTxn]_vars

\* ------------------------------------------- close and a new instance
\* close() of the per-entry-salt store, the history kept: the sets that
\* stand are now those of an earlier instance
Before == "an instance closed since"
CloseKept(c) ==
    /\ Idle(c)
    /\ IsOpen(c)
    /\ inst' = [inst EXCEPT ![c] = [NoInst EXCEPT !.st = "closed", !.conn = "closed"]]
    /\ ret' = Done(c, "close", "a", <<>>, Ret("ok", <<>>))
    /\ last' = [k \in Keys |-> IF last[k].op = "set"
                               THEN [last[k] EXCEPT !.by = Before]
                               ELSE last[k]]
    /\ UNCHANGED <<envvars, dbvars, nsalt, pc, cur>>

InitReopen == Start /\ variant = "flight" /\ keys = Keys

NextReopen ==
    \/ Open(Solo)
    \/ CloseKept(Solo)
    \/ GetItem(Solo)
    \/ DelItemContains(Solo)
    \/ DelItemExecute(Solo)
    \/ SetItemContains(Solo)
    \/ SetItemInsert(Solo)

SpecReopen == InitReopen /\ [][NextReopen]_vars

\* ---------------------------------- two instances, one call at a time
\* (mutant) a delete that does not look the key up first
delitem_unchecked(self, db, key) ==
    Outcome(SqlDelete(db.rows, key), db.nsalt, Ret("ok", <<>>))

\* __delitem__ run by one caller from its first line to its last
delitem(self, db, key) ==
    LET r == contains(self, db.rows, key)
    IN  IF r.kind = "True"
        THEN Outcome(SqlDelete(db.rows, key), db.nsalt, Ret("ok", <<>>))
        ELSE IF r.kind = "False"
        THEN Outcome(db.rows, db.nsalt, Raise("KeyError"))
        ELSE Outcome(db.rows, db.nsalt, r)

\* d[key] = value
SetItem(c) ==
    /\ Idle(c)
    /\ IsOpen(c)
    /\ variant = "flight" => SaltLeft
    /\ \E key \in keys, value \in Texts :
        LET d == setitem(inst[c], DB(rows, nsalt), key, value)
        IN  /\ rows' = d.rows
            /\ nsalt' = d.nsalt
            /\ Finish(c, "set", key, value, d.r)
    /\ UNCHANGED <<envvars, tableExists, indexExists, inst>>

\* del d[key]
DelItem(c) ==
    /\ Idle(c)
    /\ IsOpen(c)
    /\ \E key \in keys :
        LET d == delitem(inst[c], DB(rows, nsalt), key)
        IN  /\ rows' = d.rows
            /\ Finish(c, "del", key, <<>>, d.r)
    /\ UNCHANGED <<envvars, tableExists, indexExists, nsalt, inst>>

Calls(c) ==
    \/ Open(c)
    \/ SetItem(c)
    \/ DelItem(c)

InitCalls == Init /\ variant # "plain"

NextCalls == \E c \in Callers : Calls(c)

SpecCalls == InitCalls /\ [][NextCalls]_vars

\* ================================================================ claims
Writer(k) == last[k].by
Settled(k) == last[k].op = "set" /\ IsOpen(Writer(k)) /\ Idle(Writer(k))
Distinct(tbl) == {tbl[i].key : i \in 1..Len(tbl)}

\* C1  Round trip: in each of the three stores, when the last change of key k
\* was a set(k, v) that returned, get(k) on the instance that ran it returns
\* exactly v, whatever sets and deletes came before.
C1_RoundTrip ==
    \A k \in Keys :
        Settled(k) => getitem(inst[Writer(k)], rows, k) = Ret("ok", last[k].val)

\* a get hands back the two-byte text, set over an older value of the key,
\* from the per-entry-salt store
C1_Witness ==
    /\ variant = "flight"
    /\ ret.op = "get" /\ ret.kind = "ok" /\ ret.val = <<233>>
    /\ last[ret.key].op = "set" /\ last[ret.key].val = ret.val
    /\ nsalt >= 2
    /\ rows[1].salt.id >= 2

\* C2  Uniqueness: with a single caller the table never holds two rows for a
\* key; after set(k, v) on a key there is exactly one row for k, len counts
\* every key once, get(k) returns the value of the latest set, and in the
\* per-entry-salt store the row a set leaves carries a salt unlike that of
\* every row the table held when the set began (the row of the first set).
C2_OneRow ==
    /\ \A k \in Keys : Cardinality(RowsOf(rows, k)) <= 1
    /\ len(rows).val[1] = Cardinality(Distinct(rows))
    /\ \A k \in Keys :
        Settled(k) =>
            /\ Cardinality(RowsOf(rows, k)) = 1
            /\ getitem(inst[Writer(k)], rows, k).val = last[k].val

C2_NewSalt ==
    (/\ variant = "flight"
     /\ pc[Solo] = "set_ins"
     /\ pc'[Solo] = "idle"
     /\ ret'.kind = "ok")
    => \A i \in 1..Len(cur[Solo].pre) :
          cur[Solo].pre[i].salt # FetchOne(rows', cur[Solo].key).salt

\* C2  one row per key at all times, and a new salt with every set
C2_Uniqueness == [](C2_OneRow) /\ [][C2_NewSalt]_vars

\* key set twice: one row, the second value, a second salt
C2_Witness ==
    /\ ret.op = "set" /\ ret.kind = "ok"
    /\ variant = "flight"
    /\ Len(rows) = 1
    /\ rows[1].key = ret.key
    /\ rows[1].salt.id = 2
    /\ rows[1].value.plain = StrEncode(last[ret.key].val)

\* C3 (as amended)  Deletion: a delete(k) that returns has removed the row of
\* k: get(k) raises KeyError and k in store is False. delete(k) on an absent
\* key raises KeyError and leaves every row as it was. delete(k) on a key
\* that is present returns, unless the instance cannot read the row (its
\* cipher does not verify the token): then the error of the read is raised
\* and every row is left as it was.
C3_AfterDelete ==
    (ret.op = "del" /\ ret.kind = "ok") =>
        /\ ~HasRow(rows, ret.key)
        /\ getitem(inst[ret.by], rows, ret.key).kind = "KeyError"
        /\ contains(inst[ret.by], rows, ret.key).kind = "False"

C3_DeleteStep ==
    (Idle(Solo) /\ pc'[Solo] = "idle" /\ ret'.op = "del") =>
        /\ rows' = rows
        /\ ~HasRow(rows, ret'.key) => ret'.kind = "KeyError"
        /\ HasRow(rows, ret'.key) =>
              /\ ret'.kind = getitem(inst[Solo], rows, ret'.key).kind
              /\ ret'.kind = "InvalidToken"

C3_DeleteReaches ==
    (pc[Solo] = "del_exec" /\ cur[Solo].op = "del") =>
        (pc'[Solo] = "idle" /\ ret'.kind = "ok" /\ rows' = SqlDelete(rows, cur[Solo].key))

C4_FailedSetStep ==
    (pc'[Solo] = "idle" /\ ret'.op = "set" /\ IsError(ret')) =>
        rows' = (IF Idle(Solo) THEN rows ELSE cur[Solo].pre)

\* C4 (as stated)  every step that ends a set with an error restores the rows
C4_FailedSetKeepsRows == [][C4_FailedSetStep]_vars

\* C5  Isolation under wrong password (per-entry-salt store): get on a row
\* that was written under another password than the instance's, or whose
\* stored ciphertext or salt has been corrupted, raises the decryption error
\* and returns no value.
Intact(row) == row.value.sound /\ row.value.key.salt = row.salt.id

PasswordAtHand(arg) == variant = "plain" \/ PasswordGiven(arg) \/ envPASS # None

C6_OpenNeverRaises ==
    (ret.op = "open" /\ PasswordAtHand(ret.arg)) =>
        (ret.kind = "ok" /\ tableExists /\ indexExists)

\* C7 (as stated)  Shared-salt store: an instance opened on the database with
\* the password a row was written under, later or alongside the writer, can
\* be opened and reads the row back.
C7_SharedSaltReadable ==
    variant = "shared" =>
        /\ (ret.op = "open" /\ PasswordAtHand(ret.arg)) => ret.kind = "ok"
        /\ \A c \in Callers, k \in keys :
              (/\ IsOpen(c)
               /\ HasRow(rows, k)
               /\ FetchOne(rows, k).value.key.pw = inst[c].password)
              => getitem(inst[c], rows, k).kind = "ok"

\* C8 (as stated)  Two callers setting the same key, their steps interleaved:
\* no set fails for a reason other than its own value or password, and the
\* table holds at most one row for the key.
C8_ConcurrentSets ==
    /\ (ret.op = "set" /\ IsError(ret)) =>
          ret.kind \in {"UnicodeEncodeError", "InvalidToken"}
    /\ \A k \in keys : Cardinality(RowsOf(rows, k)) <= 1

\* C9  Row consistency: in the encrypted stores every row of the table, in
\* every state a reader can see (between the steps of other callers' sets
\* and deletes too), has a salt, and its ciphertext was made by the cipher
\* derived from that salt.
C9_RowConsistency ==
    variant # "plain" =>
        \A i \in 1..Len(rows) :
            /\ rows[i].salt.t = "str"
            /\ rows[i].value.key.salt = rows[i].salt.id
            /\ rows[i].value.sound

\* a row is in the table while the other caller stands between the steps of
\* its own set
C9_Witness ==
    /\ variant \in {"shared", "flight"}
    /\ Len(rows) = 1
    /\ rows[1].value.key.pw = inst["c2"].password
    /\ pc["c1"] = "set_ins"
    /\ cur["c1"].pre # rows

\* C10 (as amended)  Password at construction: a password argument that is
\* not empty is the store's password whatever PASS holds; with no argument,
\* or an empty one, the PASS value is; with neither, construction fails, no
\* instance is there to defer the error to, and neither schema nor rows
\* change.
C10_Resolved(given(_)) ==
    (ret.op = "open" /\ variant # "plain") =>
        /\ (ret.kind = "ok") = IsOpen(ret.by)
        /\ IsOpen(ret.by) =>
              inst[ret.by].password =
                  (IF given(ret.arg) THEN StrEncode(ret.arg) ELSE StrEncode(envPASS))
        /\ (~given(ret.arg) /\ envPASS = None) => ret.kind = "AttributeError"

C10_FailStep ==
    (~IsOpen(Solo) /\ ret'.op = "open" /\ ret'.kind = "AttributeError") =>
        UNCHANGED <<tableExists, indexExists, rows>>

\* C10 (as amended)  the password of every constructed store, and the frame
\* of a failed construction
C10_PasswordResolution == [](C10_Resolved(PasswordGiven)) /\ [][C10_FailStep]_vars

\* both an argument and PASS are there and the argument wins
C10_Witness ==
    /\ ret.op = "open" /\ ret.kind = "ok"
    /\ ret.arg = <<112>>
    /\ envPASS = <<113>>
    /\ inst[ret.by].password = <<112>>

\* C10 (as stated)  a password argument that is supplied, empty or not, is
\* the store's password whatever PASS holds.
Supplied(arg) == arg # None

\* C10 (as stated)  the same, with "supplied" for "not empty"
C10_Original == C10_Resolved(Supplied)

\* C11 (as stated)  Salt of the shared-salt store opened on a database with
\* no rows: the salt argument when one is given; else the decoded SALT
\* environment value when it is set; else a random salt generated for this
\* store. The SALT environment value never overrides a salt argument.
C11_SaltResolution ==
    (/\ variant = "shared"
     /\ ret.op = "open" /\ ret.kind = "ok"
     /\ Idle(ret.by)
     /\ rows = <<>>)
    => inst[ret.by].salt =
          (IF ret.salt # NoSalt THEN SaltEncode(ret.salt)
           ELSE IF envSALT # NoSalt THEN Base64Decode(envSALT)
           ELSE SaltEncode(token_urlsafe(nsalt - 1)))

\* C12 (as stated)  key in store is a total test of row presence: on every
\* open instance and for every key it is True when the table has a row for
\* the key and False when it has none, and it never raises, whoever wrote
\* the row.
C12_ContainsTotal ==
    \A c \in Callers, k \in Keys :
        IsOpen(c) =>
            contains(inst[c], rows, k) =
                (IF HasRow(rows, k) THEN Ret("True", <<>>) ELSE Ret("False", <<>>))

\* C13  After close() every set, get, delete, len, iteration and vacuum on
\* the instance fails with the closed-connection error
\* (sqlite3.ProgrammingError), and no step taken while the instance is
\* closed changes a row of the table.
C13_ClosedFails ==
    (inst[ret.by].st = "closed" /\ ret.op # "close") =>
        (ret.op \in ConnMethods /\ ret.kind = "ProgrammingError")

C13_ClosedFrame ==
    (inst[Solo].st = "closed" /\ inst'[Solo].st = "closed") => rows' = rows

LastOf(s, k) == s[CHOOSE i \in 1..Len(s) :
                     s[i][1] = k /\ \A j \in (i + 1)..Len(s) : s[j][1] # k][2]
RowsFor(tbl, k) == SelectSeq(tbl, LAMBDA r : r.key = k)

C14_BulkStep ==
    (pc[Solo] = "init_update" /\ pc'[Solo] = "idle") =>
        LET e == cur[Solo].val.items \o cur[Solo].val.kwargs
            d == setall(inst[Solo], DB(rows, nsalt), e)
        IN  /\ rows' = d.rows
            /\ ret'.kind = d.r.kind
            /\ (ret'.kind = "ok") = (inst'[Solo].st = "open")
            /\ (ret'.kind = "ok") =>
                  /\ \A k \in KeysOf(e) :
                        /\ Cardinality(RowsOf(rows', k)) = 1
                        /\ getitem(inst'[Solo], rows', k) = Ret("ok", LastOf(e, k))
                  /\ \A k \in Keys \ KeysOf(e) : RowsFor(rows', k) = RowsFor(rows, k)

\* every set a caller runs step by step leaves what setitem computes
C14_SetStep ==
    (pc'[Solo] = "idle" /\ ret'.op = "set") =>
        \E value \in (IF Idle(Solo) THEN Texts ELSE {cur[Solo].val}) :
            LET pre == IF Idle(Solo) THEN rows ELSE cur[Solo].pre
                d == setitem(inst[Solo], DB(pre, nsalt), ret'.key, value)
            IN  /\ rows' = d.rows
                /\ nsalt' = d.nsalt
                /\ ret'.kind = d.r.kind

\* C14  the constructor's entries are set one by one, in order
C14_BulkConstruction == [][C14_BulkStep]_vars /\ [][C14_SetStep]_vars

\* a pair and a keyword entry of the same key: the keyword entry's value is
\* in the one row of the key
C14_Witness ==
    /\ ret.op = "open" /\ ret.kind = "ok"
    /\ Len(ret.entries) = 2
    /\ ret.entries[1][1] = ret.entries[2][1]
    /\ ret.entries[1][2] # ret.entries[2][2]
    /\ Cardinality(RowsOf(rows, ret.entries[1][1])) = 1
    /\ getitem(inst[ret.by], rows, ret.entries[1][1]).val = ret.entries[2][2]

\* C15  Iteration is a snapshot: what an iterator has handed out and what it
\* still holds are together the keys that had a row when iter ran its query,
\* each once, whatever sets and deletes came between the nexts; once it is
\* exhausted it has handed out exactly those keys. Every call of iter
\* starts anew from the rows of its moment.
Range(s) == {s[i] : i \in 1..Len(s)}

C15_Snapshot ==
    \A c \in Callers :
        iters[c].live =>
            LET all == iters[c].out \o iters[c].rest
            IN  /\ Range(all) = iters[c].snap
                /\ Len(all) = Cardinality(iters[c].snap)

C15_IterStep ==
    \A c \in Callers :
        (iters'[c] # iters[c] /\ iters'[c].out = <<>>) =>
            /\ Range(iters'[c].rest) = {k \in Keys : HasRow(rows, k)}
            /\ rows' = rows

C15_NextStep ==
    \A c \in Callers :
        (iters'[c] # iters[c] /\ iters'[c].out # <<>>) =>
            /\ iters'[c].snap = iters[c].snap
            /\ Len(iters'[c].out) = Len(iters[c].out) + 1
            /\ rows' = rows

\* C15  the snapshot, and the steps of iter and next
C15_IterationSnapshot ==
    [](C15_Snapshot) /\ [][C15_IterStep]_vars /\ [][C15_NextStep]_vars

\* an iterator is exhausted after handing out two keys, one of which has
\* lost its row since the query
C15_Witness ==
    /\ iters[Solo].live
    /\ iters[Solo].rest = <<>>
    /\ Len(iters[Solo].out) = 2
    /\ \E k \in iters[Solo].snap : ~HasRow(rows, k)

\* C17  Codec substitution: assigning an encoder or a decoder changes no row;
\* a set that returns after it has stored the output of the encoder the
\* instance holds then; a get applies the decoder the instance holds then to
\* the stored (in the encrypted stores: the decrypted) bytes.
Stored(row) == IF variant = "plain" THEN row.value ELSE row.value.plain

C17_AssignStep ==
    (/\ IsOpen(Solo) /\ inst'[Solo].st = "open"
     /\ <<inst'[Solo].encoder, inst'[Solo].decoder>> #
           <<inst[Solo].encoder, inst[Solo].decoder>>)
    => UNCHANGED <<tableExists, indexExists, rows>>

C17_SetStep ==
    (inst' = inst /\ pc'[Solo] = "idle" /\ ret'.op = "set" /\ ret'.kind = "ok") =>
        Stored(FetchOne(rows', ret'.key)) =
            (IF inst[Solo].encoder = "default"
             THEN StrEncode(last'[ret'.key].val)
             ELSE last'[ret'.key].val)

C17_GetStep ==
    (inst' = inst /\ pc'[Solo] = "idle" /\ ret'.op = "get" /\ ~IsError(ret')) =>
        /\ rows' = rows
        /\ ret'.val =
              (IF inst[Solo].decoder = "default"
               THEN BytesDecode(Stored(FetchOne(rows, ret'.key))).s
               ELSE Stored(FetchOne(rows, ret'.key)))

\* C17  the three steps: assignment, set after it, get after it
C17_CodecSubstitution ==
    [][C17_AssignStep]_vars /\ [][C17_SetStep]_vars /\ [][C17_GetStep]_vars

\* a row stored by the default encoder (two bytes for one character) is
\* read after a latin-1 decoder was assigned: two characters come back
C17_Witness ==
    /\ ret.op = "get" /\ ret.kind = "ok"
    /\ inst[ret.by].decoder = "latin-1"
    /\ ret.val = <<195, 169>>
    /\ Stored(FetchOne(rows, ret.key)) = <<195, 169>>

\* C18  Derivation cache hit: when the last change of a key was a set on the
\* instance at hand, the salt of its row has been derived for exactly once
\* and is in the cache, and a get of the key derives nothing.
Times(log, salt) == Cardinality({i \in 1..Len(log) : log[i] = salt})

C18_DerivedOnce ==
    \A k \in Keys :
        Settled(k) =>
            LET newsalt == SaltEncode(FetchOne(rows, k).salt)
            IN  /\ Times(derived, newsalt) = 1
                /\ lru_hit(cache, newsalt)

C18_GetStep ==
    (/\ inst' = inst /\ pc'[Solo] = "idle" /\ ret'.op = "get"
     /\ Settled(ret'.key))
    => derived' = derived

\* C18  one derivation per row set, none in the get that follows
C18_CacheHit == [](C18_DerivedOnce) /\ [][C18_GetStep]_vars

\* a get has returned the value of the set before it; the one derivation
\* for the row's salt is the latest of the instance
C18_Witness ==
    /\ variant = "cached"
    /\ ret.op = "get" /\ ret.kind = "ok"
    /\ Settled(ret.key)
    /\ ret.val = last[ret.key].val
    /\ derived # <<>>
    /\ derived[Len(derived)] = SaltEncode(FetchOne(rows, ret.key).salt)

\* C19  Single computation per salt under concurrency: while two threads
\* are inside fernetgen for the same salt, the instance has run the
\* derivation for that salt once at most and its cache holds the salt once
\* at most.
InFernetgen(c) == pc[c] \in {"lookup", "derive", "store"}

C19_SingleComputation ==
    \A c, d \in Callers :
        (c # d /\ InFernetgen(c) /\ InFernetgen(d)
         /\ cur[c].pre.salt = cur[d].pre.salt)
        => LET newsalt == SaltEncode(cur[c].pre.salt)
           IN  /\ Times(derived, newsalt) <= 1
               /\ Times(cache, newsalt) <= 1

\* C20  File store key names: a file written by set(k, v), k without a
\* quadruple underscore, has a name from which iteration recovers k and
\* __getitem__ recovers the salt it was encrypted with; and a get(k) that
\* follows a set(k, v) returns v.
C20_Entry ==
    \A f \in files :
        ~Has(f.key, Sep) =>
            /\ split(f.name, Sep)[1] = f.key
            /\ Derive(f.token.key.pw, SaltEncode(SaltOf(f.name))) = f.token.key

C20_GetStep ==
    (/\ ret.op = "set" /\ ret.kind = "ok"
     /\ pc[Solo] = "get_open" /\ pc'[Solo] = "idle"
     /\ ret'.key = ret.key)
    => ret'.kind = "ok" /\ ret'.val = ret.arg

C20_SetGet == [][C20_GetStep]_vars

C20_KeyNames == [](C20_Entry) /\ C20_SetGet

\* C16  repr leaks no secret: what repr returns (or raises) is the same
\* for the store at hand and for a store that differs from it in nothing
\* but the password, the salt and the key derived from them: an encrypted
\* SQLDict with another password, salt and cipher; a FileDict with another
\* password whose files are encrypted under it, or whose files carry other
\* salts.  So no password, key or salt is part of the text.
OtherPasswords == {StrEncode(<<112>>), StrEncode(<<113>>), StrEncode(<<114>>)}
OtherSalts == {Salt("bytes", i) : i \in 1..MaxSalts} \cup {Salt("bytes", ArgSaltId)}

Other(self, pw, s) ==
    [self EXCEPT !.password = pw, !.salt = s, !.fernet = Derive(pw, s)]

Rekey(dir, pw) == {[f EXCEPT !.token.key.pw = pw] : f \in dir}

Swap(s) == [i \in 1..Len(s) |-> IF s[i] = "x" THEN "y" ELSE s[i]]
Resalt(dir) ==
    {[f EXCEPT !.name = Swap(f.name), !.token.key.salt = Swap(f.token.key.salt)] :
     f \in dir}
ResaltCache(k) ==
    Cached([i \in 1..Len(k.cache) |-> Salt("bytes", Swap(k.cache[i].id))],
           [i \in 1..Len(k.derived) |-> Salt("bytes", Swap(k.derived[i].id))])

Returned(self, dir, k) == {w.r : w \in filedict_repr(self, dir, k)}

C16_SqlRepr ==
    \A c \in Callers :
        (variant \in {"shared", "flight"} /\ inst[c].st # "none") =>
            \A pw \in OtherPasswords, s \in OtherSalts :
                sql_repr(Other(inst[c], pw, s)) = sql_repr(inst[c])

C16_FileRepr ==
    (variant = "file" /\ OnDir(Solo) /\ Idle(Solo)) =>
        LET self == inst[Solo]
            k == Cached(cache, derived)
            here == Returned(self, files, k)
        IN  /\ \A pw \in OtherPasswords :
                   Returned([self EXCEPT !.password = pw], Rekey(files, pw), k) = here
            /\ Returned(self, Resalt(files), ResaltCache(k)) = here

C16_Returned ==
    (variant \in {"shared", "flight"} /\ ret.op = "repr") =>
        \A pw \in OtherPasswords, s \in OtherSalts :
            ret.val = sql_repr(Other(inst[ret.by], pw, s))

C16_ReprNoSecrets == C16_SqlRepr /\ C16_FileRepr /\ C16_Returned

\* repr has returned its text for a store with per-entry salts that holds
\* a row written under the password of the instance
C16_Witness ==
    /\ variant = "flight"
    /\ ret.op = "repr" /\ ret.kind = "ok"
    /\ IsOpen(Solo)
    /\ inst[Solo].password # <<>>
    /\ \E i \in 1..Len(rows) : rows[i].value.key.pw = inst[Solo].password

\* C21  File store deletion: a delete(k) while no file of the directory
\* matches k raises KeyError, the error get(k) raises for an absent key,
\* and leaves the directory as it was.
C21_DeleteStep ==
    (/\ pc[Solo] = "idle" /\ pc'[Solo] = "idle"
     /\ ret'.op = "del"
     /\ glob(files, ret'.key) = {})
    => ret'.kind = "KeyError" /\ files' = files

C21_AbsentDelete == [][C21_DeleteStep]_vars

\* C22  Overwrite is invisible as an absence: while a set(k, v2) on a key
\* that had a row when the set began is under way, every state another
\* connection can read holds exactly one row for k, and no fewer rows than
\* when the set began.
C22_OverwriteVisible ==
    \A c \in Callers :
        (/\ pc[c] # "idle" /\ cur[c].op = "set"
         /\ HasRow(cur[c].pre, cur[c].key))
        => /\ Cardinality(RowsOf(rows, cur[c].key)) = 1
           /\ Len(rows) >= Len(cur[c].pre)

\* C23  Schema completeness after open: once a construction has returned
\* an instance, the table Dict and its unique index exist, also when an
\* earlier initialization stopped between the two; so the table never
\* holds two rows for one key.
C23_SchemaComplete ==
    /\ (ret.op = "open" /\ ret.kind = "ok") => (tableExists /\ indexExists)
    /\ (\E c \in Callers : IsOpen(c)) =>
          \A k \in Keys : Cardinality(RowsOf(rows, k)) <= 1

\* C24  Derivation outside the write transaction: while a set of an
\* encrypted store is about to derive the key and encrypt, or has done so
\* and not yet executed its INSERT, its connection has no transaction
\* open; and the row an open INSERT transaction has written is the row
\* that was computed before the transaction began.
C24_DerivationOutside ==
    \A c \in Callers :
        /\ pc[c] \in {"set_ins", "set_exec"} => ~inst[c].in_transaction
        /\ pc[c] = "set_commit" =>
              /\ inst[c].in_transaction
              /\ rows[Len(rows)] = cur[c].row

C24_Witness ==
    /\ pc[Solo] = "set_commit"
    /\ HasRow(cur[Solo].pre, cur[Solo].key)
    /\ variant = "flight"

\* C25  Release on failed construction: when a constructor that has
\* opened its connection raises (no password, key derivation failed, an
\* initial entry failed), the connection is closed by the time the caller
\* has the error.
C25_ReleasedOnFailure ==
    (ret.op = "open" /\ IsError(ret)) => inst[ret.by].conn # "open"

\* C26  Per-entry-salt persistence across instances: when the last
\* operation on key k of an instance closed since was a set(k, v) that
\* returned, get(k) on a new instance with the same password returns v,
\* the cipher re-derived from the salt stored in the row.
C26_PersistsAcrossInstances ==
    (/\ ret.op = "get"
     /\ Idle(ret.by)
     /\ last[ret.key].op = "set"
     /\ last[ret.key].by = Before
     /\ inst[ret.by].password = last[ret.key].pw)
    => /\ ret.kind = "ok"
       /\ ret.val = last[ret.key].val
       /\ \E i \in 1..Len(rows) :
             /\ rows[i].key = ret.key
             /\ rows[i].salt # NoSalt

C26_Witness ==
    /\ ret.op = "get"
    /\ ret.kind = "ok"
    /\ last[ret.key].op = "set"
    /\ last[ret.key].by = Before
    /\ inst[ret.by].password = last[ret.key].pw
    /\ Len(rows) = 2
    /\ rows[1].salt # rows[2].salt

\* the password the row of a key was encrypted under, and an instance
\* that holds another password than some row's
WrittenUnder(tbl, key) == FetchOne(tbl, key).value.key.pw
Foreign(c) == \E i \in 1..Len(rows) : rows[i].value.key.pw # inst[c].password

\* C27  Implicit write protection by password: in the encrypted stores a
\* set or a delete of key k by an instance whose password differs from the
\* one the row of k was written under raises InvalidToken and leaves the
\* table as it was; a set of a key with no row by such an instance raises
\* no decryption error, and with a value the encoder takes it returns and
\* adds the row of k to the rows that were there.
C27_SetOrDelete ==
    LET c == ret'.by
        k == ret'.key
    IN  /\ (/\ ret'.op \in {"set", "del"}
            /\ HasRow(rows, k)
            /\ WrittenUnder(rows, k) # inst[c].password)
           => (ret'.kind = "InvalidToken" /\ rows' = rows)
        /\ (/\ ret'.op = "set"
            /\ ~HasRow(rows, k)
            /\ Foreign(c))
           => /\ ret'.kind \in {"ok", "UnicodeEncodeError"}
              /\ SqlDelete(rows', k) = rows
              /\ ret'.kind = "ok" =>
                    (HasRow(rows', k) /\ WrittenUnder(rows', k) = inst[c].password)
        /\ \A d \in Callers, key \in keys, value \in Texts :
              (/\ IsOpen(d) /\ Idle(d) /\ Foreign(d)
               /\ ~HasRow(rows, key)
               /\ CanEncode(value))
              => setitem(inst[d], DB(rows, nsalt), key, value).r.kind = "ok"

C28_FrameStep ==
    LET c == ret'.by
        k == ret'.key
        pre == IF pc[c] = "idle" THEN rows ELSE cur[c].pre
    IN  (/\ ret'.op \in {"set", "del"}
         /\ ret'.kind = "ok"
         /\ pc'[c] = "idle")
        => \A other \in keys \ {k} :
              /\ RowsFor(rows', other) = RowsFor(pre, other)
              /\ getitem(inst[c], rows', other) = getitem(inst[c], pre, other)

C28_Frame == [][C28_FrameStep]_vars

C28_Witness ==
    /\ ret.op = "set"
    /\ ret.kind = "ok"
    /\ Idle(ret.by)
    /\ Len(rows) = 2
    /\ rows[2].key = ret.key
    /\ last[rows[1].key].op = "set"
    /\ nsalt = 3



====
